---- MODULE Spec2Model ----
(***************************************************************************)
(* A model of player_transfer_value_scraper.py: the three pickle caches    *)
(* (links, player attributes, market value histories), the driver loop of  *)
(* main(), and the pure functions it uses (attribute cleaning, history     *)
(* extraction and sort, season alignment, age at season start).            *)
(*                                                                         *)
(* Python values are modelled as follows.                                  *)
(*   None                 [tag |-> "None"]                                 *)
(*   an optional value    None or Some(v)                                  *)
(*   a list               [tag |-> "list", items |-> <<...>>]              *)
(*   a datetime           [year |-> y, month |-> m, day |-> d] (time 0:00) *)
(*   a 'dd/mm/YYYY' text  <<d, m, y>>  (the three fields, in text order)   *)
(*   a year text '2011'   <<2, 0, 1, 1>>  (its digits)                     *)
(*   a call's outcome     [ret |-> value] or [exc |-> "ExceptionName"]     *)
(* A text made of words (a name, a position) is the sequence of its words, *)
(* so joining with blanks is concatenation.                                *)
(***************************************************************************)
EXTENDS Integers, Sequences, FiniteSets, TLC

VARIABLES
    linkDisk,               \* links_cache.pickle
    attrDisk,               \* extracted_player_data.pickle
    valDisk,                \* player_transfer_value_cache.pickle
    pc,                     \* where the run stands
    yi,                     \* index of `year` in main's loop over years
    links_cache,            \* load_scrape_year_links: the unpickled dict
    year_team_links,        \* load_scrape_year_links: local
    team_player_links,      \* load_scrape_year_links: local, then main's
    building,               \* extract_team_player_links: its team_player_links
    ti,                     \* extract_team_player_links: index of team_link
    ui,                     \* main: index in team_player_links.items()
    pj,                     \* main: index of player_link in player_links
    extracted_player_data,  \* main: local
    row_data,               \* main: the rows appended so far (header left out)
    error,                  \* the exception that ended the run, or None
    lastCall,               \* the transport call of the latest step, or None
    transfer_value_history, \* add_player_market_value_for_year: local
    written,                \* the rows this run handed to the csv writer, or None
    previous,               \* how the run before this one ended ("none" for the first)
    valued,                 \* the player links whose fetched history is in the pickle
    call                    \* a single call of a pure function (SpecFn only)

driverVars == <<linkDisk, attrDisk, valDisk, pc, yi, links_cache, year_team_links,
                team_player_links, building, ti, ui, pj, extracted_player_data,
                row_data, error, lastCall, transfer_value_history, written, previous,
                valued>>
vars == <<linkDisk, attrDisk, valDisk, pc, yi, links_cache, year_team_links,
          team_player_links, building, ti, ui, pj, extracted_player_data,
          row_data, error, lastCall, transfer_value_history, written, previous,
          valued, call>>

---------------------------------------------------------------------------
(* Bounds *)

NumYears == 2       \* how many of main's ten years a run covers
MaxHist == 3        \* longest history given to the season aligner in SpecFn
MaxScripts == 3     \* most script blocks of a value page in SpecFn

---------------------------------------------------------------------------
(* Python values *)

None == [tag |-> "None"]
Some(v) == [tag |-> "some", v |-> v]
List(s) == [tag |-> "list", items |-> s]
Ret(v) == [ret |-> v]
Raise(e) == [exc |-> e]
Raised(o) == "exc" \in DOMAIN o
EmptyDict == [k \in {} |-> None]
Unset == [tag |-> "unset"]      \* a local that holds nothing yet

\* d[k] = v for a dict d (a function): the key is added or its value replaced
DictPut(d, k, v) == [x \in DOMAIN d \cup {k} |-> IF x = k THEN v ELSE d[x]]

Date(y, m, d) == [year |-> y, month |-> m, day |-> d]

\* datetime's a <= b
DateLE(a, b) ==
    \/ a.year < b.year
    \/ a.year = b.year /\ a.month < b.month
    \/ a.year = b.year /\ a.month = b.month /\ a.day <= b.day

\* int(year) for a text of four digits
IntOfYear(year) == 1000 * year[1] + 100 * year[2] + 10 * year[3] + year[4]

\* the text of a year number
YearText(n) == <<n \div 1000, (n \div 100) % 10, (n \div 10) % 10, n % 10>>

\* datetime.strptime(text, '%b %d, %Y'): text is [fmt, date], fmt naming how the
\* page wrote the date
strptime_b_d_Y(text) ==
    IF text.fmt = "%b %d, %Y" THEN Ret(text.date) ELSE Raise("ValueError")

\* datetime.strptime(text, '%b %d, %Y Happy Birthday')
strptime_b_d_Y_birthday(text) ==
    IF text.fmt = "%b %d, %Y Happy Birthday" THEN Ret(text.date) ELSE Raise("ValueError")

\* dt.strftime('%d/%m/%Y')
strftime_d_m_Y(dt) == <<dt.day, dt.month, dt.year>>

\* datetime.strptime(text, '%d/%m/%Y'); None is no str
strptime_d_m_Y(text) ==
    IF text = None THEN Raise("TypeError")
    ELSE Ret(Date(text.v[3], text.v[2], text.v[1]))

\* datetime(int(year), 10, 1, 0, 0)
season_start_date(year) == Date(IntOfYear(year), 10, 1)

---------------------------------------------------------------------------
(* clean_extract_player_data *)

\* " ".join(player_link.split('/')[3].split('-')): the words of the link's slug
player_name_of(player_link) == player_link.slug

clean_dob(player_data) ==
    IF "Date of birth" \in DOMAIN player_data
    THEN LET first == strptime_b_d_Y(player_data["Date of birth"])
             second == strptime_b_d_Y_birthday(player_data["Date of birth"])
             dob == IF ~Raised(first) THEN Some(first.ret)
                    ELSE IF ~Raised(second) THEN Some(second.ret)
                    ELSE None
         IN IF dob # None THEN Some(strftime_d_m_Y(dob.v)) ELSE None
    ELSE None

NonAscii == {"nbsp"}

RECURSIVE DropAll(_, _)
DropAll(s, drop) ==
    IF s = <<>> THEN <<>>
    ELSE IF Head(s) \in drop THEN DropAll(Tail(s), drop)
    ELSE <<Head(s)>> \o DropAll(Tail(s), drop)

\* height.encode('ascii', 'ignore')[:-1].decode("utf-8").replace(',', '') on a
\* text given as the sequence of its characters
clean_height(player_data) ==
    IF "Height" \in DOMAIN player_data
    THEN LET ascii == DropAll(player_data["Height"], NonAscii)
             cut == SubSeq(ascii, 1, Len(ascii) - 1)
         IN Some(DropAll(cut, {","}))
    ELSE None

PassThrough(player_data, k) ==
    IF k \in DOMAIN player_data THEN Some(player_data[k]) ELSE None

clean_extract_player_data(player_link, player_data) ==
    [player_name |-> player_name_of(player_link),
     dob |-> clean_dob(player_data),
     height |-> clean_height(player_data),
     foot |-> PassThrough(player_data, "Foot"),
     citizenship |-> PassThrough(player_data, "Citizenship"),
     position |-> PassThrough(player_data, "Position")]

---------------------------------------------------------------------------
(* calculate_player_age *)

calculate_player_age_late(year, player_data) ==
    IF "dob" \in DOMAIN player_data
    THEN LET parsed == strptime_d_m_Y(player_data["dob"])
         IN IF Raised(parsed) THEN parsed
            ELSE LET dob == parsed.ret
                     start == season_start_date(year)
                     age == IntOfYear(year) - dob.year
                 IN IF start.month < dob.month
                       \/ (start.month = dob.month /\ start.day <= dob.day)
                    THEN Ret(Some(age - 1))
                    ELSE Ret(Some(age))
    ELSE Ret(None)

calculate_player_age(year, player_data) ==
    IF "dob" \in DOMAIN player_data
    THEN LET parsed == strptime_d_m_Y(player_data["dob"])
         IN IF Raised(parsed) THEN parsed
            ELSE LET dob == parsed.ret
                     start == season_start_date(year)
                     age == IntOfYear(year) - dob.year
                 IN IF start.month < dob.month
                       \/ (start.month = dob.month /\ start.day < dob.day)
                    THEN Ret(Some(age - 1))
                    ELSE Ret(Some(age))
    ELSE Ret(None)

---------------------------------------------------------------------------
(* scrape_player_market_value_history, after the page was fetched *)

\* the scripts are looked at from the first to the last
RECURSIVE FindSeries_forward(_, _)
FindSeries_forward(script_soups, script_iter) ==
    IF script_iter >= Len(script_soups) THEN None
    ELSE LET script == script_soups[script_iter + 1]
         IN IF script.series # None THEN script.series
            ELSE FindSeries_forward(script_soups, script_iter + 1)

\* the scripts from the last to the first; the first that holds the marker
\* 'series':[...] gives its literal
RECURSIVE FindSeries(_, _)
FindSeries(script_soups, script_iter) ==
    IF script_iter >= Len(script_soups) THEN None
    ELSE LET script == script_soups[Len(script_soups) - script_iter]
         IN IF script.series # None THEN script.series
            ELSE FindSeries(script_soups, script_iter + 1)

\* transfer_value_rows of raw_data['data'], in the page's order; a date text
\* that is not '%b %d, %Y' raises
RECURSIVE ValueRows(_)
ValueRows(data) ==
    IF data = <<>> THEN Ret(<<>>)
    ELSE LET when == strptime_b_d_Y(data[1].datum_mw)
             rest == ValueRows(Tail(data))
         IN IF Raised(when) THEN when
            ELSE IF Raised(rest) THEN rest
            ELSE Ret(<<<<data[1].y, when.ret>>>> \o rest.ret)

\* row goes behind the rows that are not later than it
RECURSIVE InsertByDate(_, _)
InsertByDate(sorted, row) ==
    IF sorted = <<>> THEN <<row>>
    ELSE IF DateLE(Head(sorted)[2], row[2])
         THEN <<Head(sorted)>> \o InsertByDate(Tail(sorted), row)
         ELSE <<row>> \o sorted

\* the rows stay in the page's order
SortByDate_skipped(rows) == rows

\* a sort that puts a row behind the later rows' equals: not stable
RECURSIVE SortByDate_unstable(_)
SortByDate_unstable(rows) ==
    IF rows = <<>> THEN <<>>
    ELSE InsertByDate(SortByDate_unstable(Tail(rows)), rows[1])

\* rows.sort(key=lambda x: x[1]): ascending by datetime, stable
RECURSIVE SortByDate(_)
SortByDate(rows) ==
    IF rows = <<>> THEN <<>>
    ELSE InsertByDate(SortByDate(SubSeq(rows, 1, Len(rows) - 1)), rows[Len(rows)])

\* the function's result for the document the transport returned
history_of_soup(soup) ==
    LET found == FindSeries(soup, 0)
    IN IF found = None THEN Ret(None)
       ELSE IF found.v.tag = "malformed" THEN Raise("SyntaxError")
       ELSE LET rows == ValueRows(found.v.data)
            IN IF Raised(rows) THEN rows
               ELSE Ret(List(SortByDate(rows.ret)))

---------------------------------------------------------------------------
(* get_season_player_market_value *)

\* the for loop from the i-th observation on, with the running candidate
RECURSIVE SeasonScan(_, _, _, _)
SeasonScan(items, i, start, best) ==
    IF i > Len(items) THEN best
    ELSE IF DateLE(items[i][2], start)
         THEN SeasonScan(items, i + 1, start,
                         [value |-> Some(items[i][1]), date |-> Some(items[i][2])])
         ELSE IF best.value = None
              THEN [value |-> Some(items[i][1]), date |-> Some(items[i][2])]
              ELSE best

\* a loop that does not stop at the first later observation
RECURSIVE SeasonScanNoBreak(_, _, _, _)
SeasonScanNoBreak(items, i, start, best) ==
    IF i > Len(items) THEN best
    ELSE SeasonScanNoBreak(items, i + 1, start,
                           [value |-> Some(items[i][1]), date |-> Some(items[i][2])])

get_season_player_market_value_no_break(year, history) ==
    IF history # None
    THEN LET items == history.items
             best == SeasonScanNoBreak(items, 1, season_start_date(year),
                                       [value |-> None, date |-> None])
         IN IF best.value = None
            THEN IF items = <<>> THEN Raise("IndexError")
                 ELSE Ret([value |-> Some(items[1][1]), date |-> Some(items[1][2])])
            ELSE Ret(best)
    ELSE Ret([value |-> None, date |-> None])

get_season_player_market_value(year, history) ==
    IF history # None
    THEN LET items == history.items
             best == SeasonScan(items, 1, season_start_date(year),
                                [value |-> None, date |-> None])
         IN IF best.value = None
            THEN IF items = <<>> THEN Raise("IndexError")
                 ELSE Ret([value |-> Some(items[1][1]), date |-> Some(items[1][2])])
            ELSE Ret(best)
    ELSE Ret([value |-> None, date |-> None])

---------------------------------------------------------------------------
(* The site, as the transport returns it.  A fetch fails (RequestException   *)
(* after the retries) or returns one of the documents the site may serve.    *)

FirstYear == 2011

\* main's list of years, cut to its first NumYears entries
Years == [i \in 1..NumYears |-> YearText(FirstYear + i - 1)]

Failure == [tag |-> "RequestException"]
Soup(content) == [tag |-> "soup", soup |-> content]
NoTable == [tag |-> "no table"]

Range(s) == {s[i] : i \in DOMAIN s}

\* list(set(...)): the elements once each, in an order the build chooses
ListsOfSet(S) ==
    {l \in [1..Cardinality(S) -> S] : \A x \in S : \E i \in DOMAIN l : l[i] = x}

Href(club, page, year) == [club |-> club, page |-> page, saison |-> year, abs |-> FALSE]

\* the a.vereinprofil_tooltip hrefs of a season's index page
IndexPage(year) ==
    <<Href("arsenal-fc", "startseite", year), Href("chelsea-fc", "startseite", year),
      Href("arsenal-fc", "startseite", year), Href("arsenal-fc", "kader", year)>>

P1 == [slug |-> <<"john", "doe">>, id |-> 1]
P2 == [slug |-> <<"john", "doe">>, id |-> 2]
P3 == [slug |-> <<"jim", "roe">>, id |-> 3]

\* the a.spielprofil_tooltip hrefs of a team page
TeamPage(team_link) ==
    IF team_link.club = "arsenal-fc" THEN <<P1, P2, P1>> ELSE <<P3>>

PlainDate(y, m, d) == [fmt |-> "%b %d, %Y", date |-> Date(y, m, d)]
BirthdayDate(y, m, d) == [fmt |-> "%b %d, %Y Happy Birthday", date |-> Date(y, m, d)]

\* the label -> text table of a player's profile page
ProfilePages(player_link) ==
    IF player_link = P1 THEN
        {("Date of birth" :> PlainDate(1995, 9, 1)) @@ ("Height" :> <<"1", ",", "8", "5", "nbsp", "m">>)
            @@ ("Foot" :> "right") @@ ("Citizenship" :> "England")
            @@ ("Position" :> <<"Centre", "Back">>)}
    ELSE IF player_link = P2 THEN
        {("Date of birth" :> BirthdayDate(1995, 11, 15)) @@ ("Position" :> <<"Centre", "Back">>)}
    ELSE
        {("Foot" :> "left") @@ ("Position" :> <<"Goalkeeper">>),
         ("Date of birth" :> PlainDate(2000, 10, 1)),
         NoTable}

Other == [series |-> None]
Series(data) == [series |-> Some([tag |-> "object", data |-> data])]
Malformed == [series |-> Some([tag |-> "malformed"])]
Obs(y, date) == [y |-> y, datum_mw |-> date]

\* the script blocks of a player's market value page
ValuePages(player_link) ==
    IF player_link = P1 THEN
        {<<Series(<<Obs(999, PlainDate(2010, 1, 1))>>), Other,
           Series(<<Obs(200, PlainDate(2011, 11, 5)), Obs(100, PlainDate(2011, 1, 15)),
                    Obs(0, PlainDate(2011, 1, 15))>>),
           Other>>}
    ELSE IF player_link = P2 THEN
        {<<Series(<<Obs(150, PlainDate(2012, 12, 1))>>)>>}
    ELSE
        {<<Other>>, <<Series(<<>>)>>, <<Other, Malformed>>}

---------------------------------------------------------------------------
(* The link cache: load_scrape_year_links and the two extractors *)

Dict(pairs) == [tag |-> "dict", items |-> pairs]

\* d[k] = v for a dict kept as its pairs in insertion order
RECURSIVE PairsPut(_, _, _)
PairsPut(pairs, k, v) ==
    IF pairs = <<>> THEN <<<<k, v>>>>
    ELSE IF Head(pairs)[1] = k THEN <<<<k, v>>>> \o Tail(pairs)
    ELSE <<Head(pairs)>> \o PairsPut(Tail(pairs), k, v)

\* "https://www.transfermarkt.co.uk" + href
Absolute(href) == [href EXCEPT !.abs = TRUE]

\* team_link.split('/')[3]
TeamOf(team_link) == team_link.club

\* the lists extract_team_links may return for the index page it fetched
extract_team_links(soup) ==
    {LET kept == SelectSeq(l, LAMBDA s : s.page = "startseite")
     IN List([i \in 1..Len(kept) |-> Absolute(kept[i])]) : l \in ListsOfSet(Range(soup))}

\* the playerLinks lists one pass of extract_team_player_links may build
team_player_lists(soup) == ListsOfSet(Range(soup))

\* what the unpickled cache holds for the year: both sub-keys are read alone
cached_links_whole_entry_only(file, year) ==
    IF year \in DOMAIN file /\ DOMAIN file[year] = {"year_team_links", "team_player_links"}
    THEN [year_team_links |-> file[year]["year_team_links"],
          team_player_links |-> file[year]["team_player_links"]]
    ELSE [year_team_links |-> None, team_player_links |-> None]

cached_links(file, year) ==
    [year_team_links |->
        IF year \in DOMAIN file /\ "year_team_links" \in DOMAIN file[year]
        THEN file[year]["year_team_links"] ELSE None,
     team_player_links |->
        IF year \in DOMAIN file /\ "team_player_links" \in DOMAIN file[year]
        THEN file[year]["team_player_links"] ELSE None]

\* links_cache[year][k] = v, with links_cache[year] = {} first when missing
links_cache_put(cache, year, k, v) ==
    DictPut(cache, year,
            DictPut(IF year \in DOMAIN cache THEN cache[year] ELSE EmptyDict, k, v))

\* a dump as soon as the year's team links are in links_cache
file_after_team_links_dumped(file, cache) == cache

\* the file when the year's team links were put in links_cache: no dump yet,
\* pickle_updated is only set
file_after_team_links(file, cache) == file

\* the next (team, player) main visits at or after (u, p); u beyond the items
\* when there is none
RECURSIVE NextVisit(_, _, _)
NextVisit(items, u, p) ==
    IF u > Len(items) THEN [ui |-> u, pj |-> 1]
    ELSE IF p <= Len(items[u][2]) THEN [ui |-> u, pj |-> p]
    ELSE NextVisit(items, u + 1, 1)

\* main goes on with the player at or after (u, p) of this year, or with the
\* next year
Visit(tpl, u, p) ==
    LET pos == NextVisit(tpl.items, u, p)
    IN IF pos.ui <= Len(tpl.items)
       THEN /\ pc' = "players"
            /\ ui' = pos.ui
            /\ pj' = pos.pj
            /\ yi' = yi
            /\ team_player_links' = tpl
       ELSE /\ pc' = "main"
            /\ ui' = 0
            /\ pj' = 0
            /\ yi' = yi + 1
            /\ team_player_links' = None

\* load_scrape_year_links returns (lines 371-375), dumping when pickle_updated
ReturnLinks(cache, tpl, pickle_updated) ==
    /\ linkDisk' = IF pickle_updated THEN cache ELSE linkDisk
    /\ links_cache' = None
    /\ year_team_links' = None
    /\ building' = None
    /\ ti' = 0
    /\ Visit(tpl, 1, 1)

\* lines 364-375, once year_team_links is known
ResolvePlayers(cache, ytl, tpl, pickle_updated) ==
    IF tpl = None
    THEN IF ytl.items = <<>>
         THEN ReturnLinks(links_cache_put(cache, Years[yi], "team_player_links", Dict(<<>>)),
                          Dict(<<>>), TRUE)
         ELSE /\ pc' = "extract_team_player_links"
              /\ links_cache' = cache
              /\ year_team_links' = ytl
              /\ team_player_links' = None
              /\ building' = Dict(<<>>)
              /\ ti' = 1
              /\ linkDisk' = IF pickle_updated THEN file_after_team_links(linkDisk, cache)
                             ELSE linkDisk
              /\ UNCHANGED <<yi, ui, pj>>
    ELSE ReturnLinks(cache, tpl, pickle_updated)

\* main calls load_scrape_year_links(year): lines 341-357, and on to the first
\* fetch or to the return
load_scrape_year_links ==
    /\ pc = "main"
    /\ yi <= NumYears
    /\ LET c == cached_links(linkDisk, Years[yi])
       IN IF c.year_team_links = None
          THEN /\ pc' = "extract_team_links"
               /\ links_cache' = linkDisk
               /\ year_team_links' = None
               /\ team_player_links' = c.team_player_links
               /\ UNCHANGED <<linkDisk, yi, ui, pj, building, ti>>
          ELSE ResolvePlayers(linkDisk, c.year_team_links, c.team_player_links, FALSE)
    /\ lastCall' = None
    /\ transfer_value_history' = Unset
    /\ UNCHANGED <<attrDisk, valDisk, extracted_player_data, row_data, error, call,
                   written, previous, valued>>

\* the run ends with an exception nobody catches
Crash(e) ==
    /\ pc' = "crashed"
    /\ error' = Some(e)

\* extract_team_links(year): the fetch of the index page, then lines 359-375
fetch_team_links ==
    /\ pc = "extract_team_links"
    /\ \E fetch \in {Failure, Soup(IndexPage(Years[yi]))} :
        IF fetch = Failure
        THEN /\ Crash("RequestException")
             /\ lastCall' = [fn |-> "extract_team_links", arg |-> Years[yi], ok |-> FALSE]
             /\ UNCHANGED <<linkDisk, links_cache, year_team_links, team_player_links,
                            building, ti, yi, ui, pj>>
        ELSE /\ \E teamLinks \in extract_team_links(fetch.soup) :
                    ResolvePlayers(links_cache_put(links_cache, Years[yi],
                                                   "year_team_links", teamLinks),
                                   teamLinks, team_player_links, TRUE)
             /\ lastCall' = [fn |-> "extract_team_links", arg |-> Years[yi], ok |-> TRUE]
             /\ UNCHANGED error
    /\ transfer_value_history' = Unset
    /\ UNCHANGED <<attrDisk, valDisk, extracted_player_data, row_data, call,
                   written, previous, valued>>

\* one pass of extract_team_player_links' loop: the fetch of a team page; after
\* the last team, lines 366-375
fetch_team_player_links ==
    /\ pc = "extract_team_player_links"
    /\ LET team_link == year_team_links.items[ti]
       IN \E fetch \in {Failure, Soup(TeamPage(team_link))} :
            IF fetch = Failure
            THEN /\ Crash("RequestException")
                 /\ lastCall' = [fn |-> "extract_team_player_links", arg |-> team_link,
                                 ok |-> FALSE]
                 /\ UNCHANGED <<linkDisk, links_cache, year_team_links, team_player_links,
                                building, ti, yi, ui, pj>>
            ELSE /\ \E playerLinks \in team_player_lists(fetch.soup) :
                    LET built == Dict(PairsPut(building.items, TeamOf(team_link), playerLinks))
                    IN IF ti < Len(year_team_links.items)
                       THEN /\ building' = built
                            /\ ti' = ti + 1
                            /\ UNCHANGED <<pc, linkDisk, links_cache, year_team_links,
                                           team_player_links, yi, ui, pj>>
                       ELSE ReturnLinks(links_cache_put(links_cache, Years[yi],
                                                        "team_player_links", built),
                                        built, TRUE)
                 /\ lastCall' = [fn |-> "extract_team_player_links", arg |-> team_link,
                                 ok |-> TRUE]
                 /\ UNCHANGED error
    /\ transfer_value_history' = Unset
    /\ UNCHANGED <<attrDisk, valDisk, extracted_player_data, row_data, call,
                   written, previous, valued>>

---------------------------------------------------------------------------
(* The attribute cache: load_scrape_player_data *)

scrape_player_data(team_year_player_link, fetch) ==
    IF fetch = Failure THEN Raise("RequestException")
    ELSE IF fetch.soup = NoTable THEN Raise("AttributeError")
    ELSE Ret(clean_extract_player_data(team_year_player_link, fetch.soup))

\* a failed fetch leaves a marker in the cache
load_scrape_player_data_caching_failure(file, team_year_player_link, fetch) ==
    IF team_year_player_link \in DOMAIN file
    THEN [out |-> Ret(file[team_year_player_link]), file |-> file, called |-> FALSE]
    ELSE LET r == scrape_player_data(team_year_player_link, fetch)
         IN IF ~Raised(r)
            THEN [out |-> r, file |-> DictPut(file, team_year_player_link, r.ret),
                  called |-> TRUE]
            ELSE IF r.exc = "RequestException"
            THEN [out |-> Ret(None), file |-> DictPut(file, team_year_player_link, None),
                  called |-> TRUE]
            ELSE [out |-> r, file |-> file, called |-> TRUE]

\* the pickle is not looked at: every call scrapes
load_scrape_player_data_refetch(file, team_year_player_link, fetch) ==
    LET r == scrape_player_data(team_year_player_link, fetch)
    IN IF ~Raised(r)
       THEN [out |-> r, file |-> DictPut(file, team_year_player_link, r.ret),
             called |-> TRUE]
       ELSE IF r.exc = "RequestException"
       THEN [out |-> Ret(None), file |-> file, called |-> TRUE]
       ELSE [out |-> r, file |-> file, called |-> TRUE]

\* the scraped record is put in the dict and the dict is not dumped
load_scrape_player_data_no_dump(file, team_year_player_link, fetch) ==
    IF team_year_player_link \in DOMAIN file
    THEN [out |-> Ret(file[team_year_player_link]), file |-> file, called |-> FALSE]
    ELSE LET r == scrape_player_data(team_year_player_link, fetch)
         IN IF ~Raised(r) THEN [out |-> r, file |-> file, called |-> TRUE]
            ELSE IF r.exc = "RequestException"
            THEN [out |-> Ret(None), file |-> file, called |-> TRUE]
            ELSE [out |-> r, file |-> file, called |-> TRUE]

\* out: what the call returns or raises; file: the pickle afterwards; called:
\* whether the transport was used
load_scrape_player_data(file, team_year_player_link, fetch) ==
    IF team_year_player_link \in DOMAIN file
    THEN [out |-> Ret(file[team_year_player_link]), file |-> file, called |-> FALSE]
    ELSE LET r == scrape_player_data(team_year_player_link, fetch)
         IN IF ~Raised(r)
            THEN [out |-> r, file |-> DictPut(file, team_year_player_link, r.ret),
                  called |-> TRUE]
            ELSE IF r.exc = "RequestException"
            THEN [out |-> Ret(None), file |-> file, called |-> TRUE]
            ELSE [out |-> r, file |-> file, called |-> TRUE]

---------------------------------------------------------------------------
(* The valuation cache: get_player_market_value_history *)

scrape_player_market_value_history(profile_link, fetch) ==
    IF fetch = Failure THEN Raise("RequestException")
    ELSE history_of_soup(fetch.soup)

\* f"{player_name} {position}"
ValueKey(player_name, position) ==
    player_name \o (IF position = None THEN <<"None">> ELSE position.v)

\* the cached entry is tested for truth, so an empty history is fetched again
get_player_market_value_history_falsy(file, player_name, position, player_link, fetch) ==
    LET key == ValueKey(player_name, position)
    IN IF key \notin DOMAIN file \/ file[key] = None \/ file[key] = List(<<>>)
       THEN LET r == scrape_player_market_value_history(player_link, fetch)
            IN IF Raised(r) THEN [out |-> r, file |-> file, called |-> TRUE]
               ELSE [out |-> r, file |-> DictPut(file, key, r.ret), called |-> TRUE]
       ELSE [out |-> Ret(file[key]), file |-> file, called |-> FALSE]

\* the key holds the player's link as well: an entry for each player
get_player_market_value_history_by_link(file, player_name, position, player_link, fetch) ==
    LET key == ValueKey(player_name, position) \o <<player_link.id>>
    IN IF key \notin DOMAIN file \/ file[key] = None
       THEN LET r == scrape_player_market_value_history(player_link, fetch)
            IN IF Raised(r) THEN [out |-> r, file |-> file, called |-> TRUE]
               ELSE [out |-> r, file |-> DictPut(file, key, r.ret), called |-> TRUE]
       ELSE [out |-> Ret(file[key]), file |-> file, called |-> FALSE]

\* an extraction that raises is taken for "no data": None is stored and returned
get_player_market_value_history_swallowing(file, name, position, link, fetch) ==
    LET key == ValueKey(name, position)
    IN IF key \notin DOMAIN file \/ file[key] = None
       THEN LET r == scrape_player_market_value_history(link, fetch)
            IN IF Raised(r)
               THEN [out |-> Ret(None), file |-> DictPut(file, key, None),
                     called |-> TRUE]
               ELSE [out |-> r, file |-> DictPut(file, key, r.ret), called |-> TRUE]
       ELSE [out |-> Ret(file[key]), file |-> file, called |-> FALSE]

get_player_market_value_history(file, player_name, position, player_link, fetch) ==
    LET key == ValueKey(player_name, position)
    IN IF key \notin DOMAIN file \/ file[key] = None
       THEN LET r == scrape_player_market_value_history(player_link, fetch)
            IN IF Raised(r) THEN [out |-> r, file |-> file, called |-> TRUE]
               ELSE [out |-> r, file |-> DictPut(file, key, r.ret), called |-> TRUE]
       ELSE [out |-> Ret(file[key]), file |-> file, called |-> FALSE]

\* out: the player_data returned, or the exception; history: the history the
\* lookup returned, when it returned
add_player_market_value_for_year(year, player_link, player_data, file, fetch) ==
    LET h == get_player_market_value_history(file, player_data["player_name"],
                                             player_data["position"], player_link, fetch)
    IN IF Raised(h.out)
       THEN [out |-> h.out, file |-> h.file, called |-> h.called, history |-> Unset]
       ELSE LET season == get_season_player_market_value(year, h.out.ret)
            IN IF Raised(season)
               THEN [out |-> season, file |-> h.file, called |-> h.called,
                     history |-> h.out.ret]
               ELSE [out |-> Ret(DictPut(DictPut(player_data, "transfer_value",
                                                 season.ret.value),
                                         "transfer_value_date",
                                         IF season.ret.date # None
                                         THEN Some(strftime_d_m_Y(season.ret.date.v))
                                         ELSE None)),
                     file |-> h.file, called |-> h.called, history |-> h.out.ret]

---------------------------------------------------------------------------
(* main *)

\* the row of lines 427-440
row_of(year, team, player_link, data) ==
    LET age == calculate_player_age(year, data)
    IN IF Raised(age) THEN age
       ELSE Ret([year |-> year,
                 player_name |-> data["player_name"],
                 team |-> team,
                 transfer_value |-> data["transfer_value"],
                 transfer_value_date |-> data["transfer_value_date"],
                 age |-> age.ret,
                 dob |-> data["dob"],
                 height |-> data["height"],
                 foot |-> data["foot"],
                 citizenship |-> data["citizenship"],
                 position |-> data["position"],
                 player_link |-> player_link])

\* the row is appended a second time
append_row_twice(rows, row) == Append(Append(rows, row), row)

\* the row is put in front of the rows
append_row_in_front(rows, row) == <<row>> \o rows

\* row_data.append(row)
append_row(rows, row) == Append(rows, row)

\* the pickle is dumped again with the record main has added the value to
attr_file_after_row_dumped(file, player_link, data) == DictPut(file, player_link, data)

\* the attribute pickle once add_player_market_value_for_year has added the
\* year's value to the record main holds: the record is main's own (unpickled
\* by this call of load_scrape_player_data, or dumped before), no dump follows
attr_file_after_row(file, player_link, data) == file

\* the team and the player main is at
CurrentTeam == team_player_links.items[ui][1]
CurrentPlayer == team_player_links.items[ui][2][pj]

\* lines 420-422: the attributes of the player, from the cache or the site
main_load_player ==
    /\ pc = "players"
    /\ \E fetch \in {Failure} \cup {Soup(s) : s \in ProfilePages(CurrentPlayer)} :
        LET r == load_scrape_player_data(attrDisk, CurrentPlayer, fetch)
        IN /\ attrDisk' = r.file
           /\ lastCall' = IF r.called
                          THEN [fn |-> "scrape_player_data", arg |-> CurrentPlayer,
                                ok |-> fetch # Failure]
                          ELSE None
           /\ IF Raised(r.out)
              THEN /\ Crash(r.out.exc)
                   /\ UNCHANGED <<yi, ui, pj, team_player_links, extracted_player_data>>
              ELSE IF r.out.ret # None
              THEN /\ pc' = "add_value"
                   /\ extracted_player_data' = r.out.ret
                   /\ UNCHANGED <<yi, ui, pj, team_player_links, error>>
              ELSE /\ Visit(team_player_links, ui, pj + 1)
                   /\ extracted_player_data' = None
                   /\ UNCHANGED error
    /\ transfer_value_history' = Unset
    /\ UNCHANGED <<linkDisk, valDisk, links_cache, year_team_links, building, ti,
                   row_data, call, written, previous, valued>>

\* lines 423-442: the value for the year, the row, its append
main_add_row ==
    /\ pc = "add_value"
    /\ \E fetch \in {Failure} \cup {Soup(s) : s \in ValuePages(CurrentPlayer)} :
        LET r == add_player_market_value_for_year(Years[yi], CurrentPlayer,
                                                  extracted_player_data, valDisk, fetch)
            row == IF Raised(r.out) THEN r.out
                   ELSE row_of(Years[yi], CurrentTeam, CurrentPlayer, r.out.ret)
        IN /\ valDisk' = r.file
           /\ transfer_value_history' = r.history
           /\ lastCall' = IF r.called
                          THEN [fn |-> "scrape_player_market_value_history",
                                arg |-> CurrentPlayer, ok |-> fetch # Failure,
                                got |-> fetch]
                          ELSE None
           /\ valued' = IF r.called /\ r.history # Unset
                        THEN valued \cup {CurrentPlayer} ELSE valued
           /\ attrDisk' = attr_file_after_row(attrDisk, CurrentPlayer,
                                              IF Raised(r.out) THEN extracted_player_data
                                              ELSE r.out.ret)
           /\ IF Raised(row)
              THEN /\ Crash(row.exc)
                   /\ UNCHANGED <<yi, ui, pj, team_player_links, extracted_player_data,
                                  row_data>>
              ELSE /\ row_data' = append_row(row_data, row.ret)
                   /\ extracted_player_data' = None
                   /\ Visit(team_player_links, ui, pj + 1)
                   /\ UNCHANGED error
    /\ UNCHANGED <<linkDisk, links_cache, year_team_links, building, ti, call, written,
                   previous>>

\* the rows so far are written after each season
main_write_csv_each_season ==
    /\ pc = "main"
    /\ yi > 1
    /\ written # List(row_data)
    /\ pc' = IF yi > NumYears THEN "done" ELSE pc
    /\ written' = List(row_data)
    /\ lastCall' = None
    /\ transfer_value_history' = Unset
    /\ UNCHANGED <<linkDisk, attrDisk, valDisk, yi, links_cache, year_team_links,
                   team_player_links, building, ti, ui, pj, extracted_player_data,
                   row_data, error, call, previous, valued>>

\* lines 444-447: after the last year the rows are written
main_write_csv ==
    /\ pc = "main"
    /\ yi > NumYears
    /\ pc' = "done"
    /\ written' = List(row_data)
    /\ lastCall' = None
    /\ transfer_value_history' = Unset
    /\ UNCHANGED <<linkDisk, attrDisk, valDisk, yi, links_cache, year_team_links,
                   team_player_links, building, ti, ui, pj, extracted_player_data,
                   row_data, error, call, previous, valued>>

\* what main starts from
InitRun ==
    /\ pc = "main"
    /\ yi = 1
    /\ links_cache = None
    /\ year_team_links = None
    /\ team_player_links = None
    /\ building = None
    /\ ti = 0
    /\ ui = 0
    /\ pj = 0
    /\ extracted_player_data = None
    /\ row_data = <<>>
    /\ error = None
    /\ lastCall = None
    /\ transfer_value_history = Unset
    /\ written = None

\* the script is run again, with the pickles the earlier run left
run_again ==
    /\ pc \in {"done", "crashed"}
    /\ pc' = "main"
    /\ yi' = 1
    /\ links_cache' = None
    /\ year_team_links' = None
    /\ team_player_links' = None
    /\ building' = None
    /\ ti' = 0
    /\ ui' = 0
    /\ pj' = 0
    /\ extracted_player_data' = None
    /\ row_data' = <<>>
    /\ error' = None
    /\ lastCall' = None
    /\ transfer_value_history' = Unset
    /\ written' = None
    /\ previous' = pc
    /\ UNCHANGED <<linkDisk, attrDisk, valDisk, call, valued>>

\* the first run: no pickle exists
Init ==
    /\ linkDisk = EmptyDict
    /\ attrDisk = EmptyDict
    /\ valDisk = EmptyDict
    /\ InitRun
    /\ previous = "none"
    /\ valued = {}
    /\ call = None

Next ==
    \/ load_scrape_year_links
    \/ fetch_team_links
    \/ fetch_team_player_links
    \/ main_load_player
    \/ main_add_row
    \/ main_write_csv
    \/ run_again

Spec == Init /\ [][Next]_vars

---------------------------------------------------------------------------
(* Single calls of the pure functions, on inputs drawn from bounded sets *)

FnValues == {0, 100, 200}
FnDates == {Date(2011, 1, 15), Date(2011, 10, 1), Date(2011, 10, 2),
            Date(2012, 10, 1), Date(2012, 12, 5)}
FnObservations == {<<v, d>> : v \in FnValues, d \in FnDates}

\* ascending by datetime, as the extractor's sort leaves a history
IsAscending(items) ==
    \A i \in 1..Len(items) - 1 : DateLE(items[i][2], items[i + 1][2])

\* the histories the valuation cache may hand to the aligner: None, or a list
\* the extractor sorted
FnHistories ==
    {None} \cup
    {List(h) : h \in {x \in UNION {[1..n -> FnObservations] : n \in 0..MaxHist} :
                        IsAscending(x)}}

FnBirthDates == {Date(y, m, d) : y \in {1995, 2000}, m \in {9, 10, 11}, d \in {1, 2, 15}}

\* the profile tables that differ in their date of birth
FnProfiles ==
    {("Foot" :> "right")} \cup
    {("Date of birth" :> [fmt |-> f, date |-> d]) :
        f \in {"%b %d, %Y", "%b %d, %Y Happy Birthday", "born"}, d \in FnBirthDates}

\* the series literals of one script block: every sequence of up to MaxHist
\* observations, in any order, timestamps repeated or not
FnSeriesData ==
    UNION {[1..n -> {Obs(o[1], PlainDate(o[2].year, o[2].month, o[2].day)) :
                        o \in FnObservations}] : n \in 0..MaxHist}

\* the script blocks of the documents with several blocks
FnScripts ==
    {Other, Malformed,
     Series(<<Obs(100, PlainDate(2011, 1, 15))>>),
     Series(<<Obs(200, PlainDate(2012, 12, 5)), Obs(0, PlainDate(2011, 10, 1))>>)}

\* what the transport may return for a value page
FnFetches ==
    {Failure} \cup {Soup(<<Series(data)>>) : data \in FnSeriesData}
              \cup {Soup(d) : d \in UNION {[1..n -> FnScripts] : n \in 0..MaxScripts}}

InitFn ==
    /\ linkDisk = EmptyDict
    /\ attrDisk = EmptyDict
    /\ valDisk = EmptyDict
    /\ InitRun
    /\ previous = "none"
    /\ valued = {}
    /\ \/ \E y \in Range(Years), h \in FnHistories :
            call = [fn |-> "get_season_player_market_value", year |-> y, arg |-> h,
                    result |-> Unset]
       \/ \E y \in Range(Years), t \in FnProfiles :
            call = [fn |-> "clean_extract_player_data", year |-> y, arg |-> t,
                    result |-> Unset]
       \/ \E f \in FnFetches :
            call = [fn |-> "scrape_player_market_value_history", arg |-> f,
                    result |-> Unset]

apply_get_season_player_market_value ==
    /\ call.fn = "get_season_player_market_value"
    /\ call.result = Unset
    /\ call' = [call EXCEPT !.result = get_season_player_market_value(call.year, call.arg)]
    /\ UNCHANGED driverVars

apply_clean_extract_player_data ==
    /\ call.fn = "clean_extract_player_data"
    /\ call' = [fn |-> "calculate_player_age", year |-> call.year, table |-> call.arg,
                arg |-> clean_extract_player_data(P1, call.arg), result |-> Unset]
    /\ UNCHANGED driverVars

apply_calculate_player_age ==
    /\ call.fn = "calculate_player_age"
    /\ call.result = Unset
    /\ call' = [call EXCEPT !.result = calculate_player_age(call.year, call.arg)]
    /\ UNCHANGED driverVars

apply_scrape_player_market_value_history ==
    /\ call.fn = "scrape_player_market_value_history"
    /\ call.result = Unset
    /\ call' = [call EXCEPT !.result = scrape_player_market_value_history(P1, call.arg)]
    /\ UNCHANGED driverVars

NextFn ==
    \/ apply_get_season_player_market_value
    \/ apply_scrape_player_market_value_history
    \/ apply_clean_extract_player_data
    \/ apply_calculate_player_age

SpecFn == InitFn /\ [][NextFn]_vars

---------------------------------------------------------------------------
(* A links_cache.pickle left by an earlier version of the script, which kept *)
(* the team links of a year only: load_scrape_year_links reads the two       *)
(* sub-keys of an entry one by one.                                          *)

\* the entries such a file may hold for a year: none, or the team links alone
EarlierEntries(year) ==
    {None} \cup {Some(("year_team_links" :> u)) : u \in extract_team_links(IndexPage(year))}

\* the file that holds entry e[y] for each year y with an entry
FileOfEntries(e) == [y \in {x \in DOMAIN e : e[x] # None} |-> e[y].v]

InitLinkFile ==
    /\ \E e \in [Range(Years) -> UNION {EarlierEntries(y) : y \in Range(Years)}] :
            /\ \A y \in Range(Years) : e[y] \in EarlierEntries(y)
            /\ linkDisk = FileOfEntries(e)
    /\ attrDisk = EmptyDict
    /\ valDisk = EmptyDict
    /\ InitRun
    /\ previous = "none"
    /\ valued = {}
    /\ call = None

SpecLinkFile == InitLinkFile /\ [][Next]_vars

---------------------------------------------------------------------------
(* Properties *)

\* the key main's valuation lookup uses, while pc = "add_value"
LookupKey ==
    ValueKey(extracted_player_data["player_name"], extracted_player_data["position"])

AttributeCall(c) == c # None /\ c.fn = "scrape_player_data"
ValuationCall(c) == c # None /\ c.fn = "scrape_player_market_value_history"
LinkCall(c) == c # None /\ c.fn \in {"extract_team_links", "extract_team_player_links"}

\* C1, as stated: once the valuation cache holds an entry for a key, a history
\* or None, every later lookup for the key (same run or a later one) returns
\* the entry, leaves the cache as it is and makes no transport call.
C1_NoRefetchOnceCached ==
    [][(pc = "add_value" /\ LookupKey \in DOMAIN valDisk)
        => (/\ lastCall' = None
            /\ valDisk' = valDisk
            /\ transfer_value_history' = valDisk[LookupKey])]_vars

\* C1, amended: once the valuation cache holds a history (empty or not) for a
\* key, every later lookup for the key returns it, leaves the cache as it is
\* and makes no transport call; an entry of None is stored but counts as a
\* miss: every later lookup for that key makes the transport call again.
C1_NoRefetchOfCachedHistory ==
    [][/\ (pc = "add_value" /\ LookupKey \in DOMAIN valDisk /\ valDisk[LookupKey] # None)
            => (/\ lastCall' = None
                /\ valDisk' = valDisk
                /\ transfer_value_history' = valDisk[LookupKey])
       /\ (pc = "add_value" /\ LookupKey \in DOMAIN valDisk /\ valDisk[LookupKey] = None)
            => (ValuationCall(lastCall') /\ lastCall'.arg = CurrentPlayer)]_vars

\* C1, witness: in the second season a lookup has just returned a cached
\* history without a fetch
C1_Witness ==
    /\ transfer_value_history # Unset
    /\ transfer_value_history # None
    /\ lastCall = None
    /\ row_data # <<>>
    /\ row_data[Len(row_data)].year = Years[2]

AlignDone ==
    /\ call # None
    /\ call.fn = "get_season_player_market_value"
    /\ call.result # Unset

AtOrBefore(items, year) == {i \in 1..Len(items) : DateLE(items[i][2], season_start_date(year))}

Observation(items, i) == [value |-> Some(items[i][1]), date |-> Some(items[i][2])]

\* C2: for a non-empty ascending history with an observation at or before
\* October 1st of the year, the aligner returns the last observation in the
\* sequence that is at or before that date, whatever follows it.
C2_AsOfAlignment ==
    (/\ AlignDone
     /\ call.arg # None
     /\ IsAscending(call.arg.items)
     /\ AtOrBefore(call.arg.items, call.year) # {})
    => LET last == CHOOSE i \in AtOrBefore(call.arg.items, call.year) :
                        \A j \in AtOrBefore(call.arg.items, call.year) : j <= i
       IN call.result = Ret(Observation(call.arg.items, last))

\* C2, witness: two observations of one date before the season start, with
\* different values, and a later one behind them; the second was returned
C2_Witness ==
    /\ AlignDone
    /\ call.arg # None
    /\ Len(call.arg.items) = 3
    /\ call.arg.items[1][2] = call.arg.items[2][2]
    /\ call.arg.items[1][1] # call.arg.items[2][1]
    /\ AtOrBefore(call.arg.items, call.year) = {1, 2}
    /\ call.result = Ret(Observation(call.arg.items, 2))

\* C3: for a non-empty ascending history whose observations are all after
\* October 1st of the year, the aligner returns the first observation, also
\* when its value is 0.
C3_FallbackToEarliest ==
    (/\ AlignDone
     /\ call.arg # None
     /\ call.arg.items # <<>>
     /\ IsAscending(call.arg.items)
     /\ AtOrBefore(call.arg.items, call.year) = {})
    => call.result = Ret(Observation(call.arg.items, 1))

\* C3, witness: several observations, all after the season start, the first
\* of value 0 and returned
C3_Witness ==
    /\ AlignDone
    /\ call.arg # None
    /\ Len(call.arg.items) >= 2
    /\ AtOrBefore(call.arg.items, call.year) = {}
    /\ call.arg.items[1][1] = 0
    /\ call.arg.items[2][1] # 0
    /\ call.result = Ret(Observation(call.arg.items, 1))

\* C4: for a history that is None or an empty list the aligner returns
\* (None, None) and raises nothing.
C4_MissingDataGivesAbsent ==
    (AlignDone /\ (call.arg = None \/ call.arg.items = <<>>))
    => call.result = Ret([value |-> None, date |-> None])

\* C5, as stated: whenever a transport call is about to start, every write
\* made to a cache is in its pickle; inside load_scrape_year_links the cache
\* in memory is links_cache (the other two caches live within one step).
C5_WritesPersistedBeforeNextCall ==
    pc \in {"extract_team_links", "extract_team_player_links"} => links_cache = linkDisk

\* C5, amended: in the attribute and the valuation cache every written entry
\* is in the pickle before any further transport call starts; in the link
\* cache a year's team links and player links are persisted by one write when
\* load_scrape_year_links returns, after the team pages were fetched, and the
\* pickle is not written before.
C5_PersistenceAsWritten ==
    [][/\ (AttributeCall(lastCall') /\ pc' = "add_value")
            => (/\ CurrentPlayer \in DOMAIN attrDisk'
                /\ attrDisk'[CurrentPlayer] = extracted_player_data')
       /\ (ValuationCall(lastCall') /\ transfer_value_history' # Unset)
            => (/\ LookupKey \in DOMAIN valDisk'
                /\ valDisk'[LookupKey] = transfer_value_history')
       /\ (pc' \in {"extract_team_links", "extract_team_player_links"})
            => linkDisk' = linkDisk
       /\ (pc \in {"main", "extract_team_links", "extract_team_player_links"}
           /\ yi <= NumYears /\ pc' \in {"players", "main"})
            => (/\ Years[yi] \in DOMAIN linkDisk'
                /\ DOMAIN linkDisk'[Years[yi]] = {"year_team_links", "team_player_links"})]_vars

\* C5, witness: a player's attributes were just scraped and are in the pickle
C5_Witness ==
    /\ AttributeCall(lastCall)
    /\ lastCall.ok
    /\ pc = "add_value"
    /\ CurrentPlayer \in DOMAIN attrDisk
    /\ attrDisk[CurrentPlayer] = extracted_player_data

\* C6: when the fetch of a player's attributes fails, the attribute pickle is
\* left as it was, without an entry for the player, no row is appended, no
\* error ends the run, main goes on behind the player, and a lookup of a player
\* without an entry always makes the transport call.
C6_AttributeFailureSkipsPlayer ==
    [][/\ (pc = "players" /\ AttributeCall(lastCall') /\ ~lastCall'.ok)
            => (/\ attrDisk' = attrDisk
                /\ CurrentPlayer \notin DOMAIN attrDisk'
                /\ row_data' = row_data
                /\ error' = None
                /\ LET pos == NextVisit(team_player_links.items, ui, pj + 1)
                   IN IF pos.ui <= Len(team_player_links.items)
                      THEN pc' = "players" /\ yi' = yi /\ ui' = pos.ui /\ pj' = pos.pj
                      ELSE pc' = "main" /\ yi' = yi + 1)
       /\ (pc = "players" /\ CurrentPlayer \notin DOMAIN attrDisk)
            => (AttributeCall(lastCall') /\ lastCall'.arg = CurrentPlayer)]_vars

\* C6, witness: in the second season the fetch for a player failed again: the
\* first season's failure left no entry, so the call was made anew
C6_Witness ==
    /\ AttributeCall(lastCall)
    /\ ~lastCall.ok
    /\ yi = 2
    /\ pc = "players"
    /\ error = None
    /\ lastCall.arg \notin DOMAIN attrDisk

TeamLinksOnly(file, year) ==
    year \in DOMAIN file /\ DOMAIN file[year] = {"year_team_links"}

\* C7: when the pickle's entry of the year holds the team links and not the
\* player links, load_scrape_year_links fetches no index page, resolves the
\* player links of the cached team links, and the team links persisted
\* afterwards are the ones persisted before.
C7_PartialLinkEntry ==
    [][/\ (pc = "main" /\ yi <= NumYears /\ TeamLinksOnly(linkDisk, Years[yi]))
            => (/\ lastCall' = None
                /\ linkDisk' = linkDisk
                /\ pc' = "extract_team_player_links"
                /\ year_team_links' = linkDisk[Years[yi]]["year_team_links"])
       /\ (pc' = "extract_team_links")
            => ~(/\ Years[yi'] \in DOMAIN linkDisk'
                 /\ "year_team_links" \in DOMAIN linkDisk'[Years[yi']])
       /\ (pc = "extract_team_player_links" /\ pc' \in {"players", "main"})
            => (/\ DOMAIN linkDisk'[Years[yi]] = {"year_team_links", "team_player_links"}
                /\ linkDisk'[Years[yi]]["year_team_links"] = year_team_links
                /\ {linkDisk'[Years[yi]]["team_player_links"].items[k][1] :
                        k \in 1..Len(linkDisk'[Years[yi]]["team_player_links"].items)}
                   = {TeamOf(l) : l \in Range(year_team_links.items)})
       /\ \A y \in DOMAIN linkDisk :
            "year_team_links" \in DOMAIN linkDisk[y]
            => (/\ y \in DOMAIN linkDisk'
                /\ "year_team_links" \in DOMAIN linkDisk'[y]
                /\ linkDisk'[y]["year_team_links"] = linkDisk[y]["year_team_links"])]_vars

\* C7, witness: the entry holds the team links alone, no index page was
\* fetched and the last team page of the cached team links is about to be
C7_Witness ==
    /\ pc = "extract_team_player_links"
    /\ TeamLinksOnly(linkDisk, Years[yi])
    /\ year_team_links = linkDisk[Years[yi]]["year_team_links"]
    /\ ti = Len(year_team_links.items)
    /\ ti > 1
    /\ LinkCall(lastCall)
    /\ lastCall.fn = "extract_team_player_links"

\* every entry of the link pickle holds both sub-keys, and player links for
\* each of its team links
WholeEntries(file) ==
    \A y \in DOMAIN file :
        /\ DOMAIN file[y] = {"year_team_links", "team_player_links"}
        /\ {file[y]["team_player_links"].items[k][1] :
                k \in 1..Len(file[y]["team_player_links"].items)}
           = {TeamOf(l) : l \in Range(file[y]["year_team_links"].items)}

\* C8: a failed fetch of the index page or of a team page ends the run with
\* the transport's exception and leaves the link pickle as it was; the pickle
\* never holds team links alone or player links for only some of the teams.
C8_LinkFailurePropagates ==
    [][/\ (LinkCall(lastCall') /\ ~lastCall'.ok
           /\ pc \in {"extract_team_links", "extract_team_player_links"})
            => (/\ pc' = "crashed"
                /\ error' = Some("RequestException")
                /\ linkDisk' = linkDisk)
       /\ WholeEntries(linkDisk')]_vars

\* C8, witness: the second team page failed after the first was fetched; the
\* run ended and the year has no entry
C8_Witness ==
    /\ pc = "crashed"
    /\ error = Some("RequestException")
    /\ lastCall.fn = "extract_team_player_links"
    /\ ti = 2
    /\ building.items # <<>>
    /\ Years[yi] \notin DOMAIN linkDisk

AgeDone ==
    /\ call # None
    /\ call.fn = "calculate_player_age"
    /\ call.result # Unset

\* C9: for a present date of birth, the age is year - birth year, less one
\* exactly when the birthday is after October 1 (month > 10, or month = 10 and
\* day > 1).
C9_AgeAtSeasonStart ==
    (AgeDone /\ call.arg["dob"] # None)
    => LET born == call.table["Date of birth"].date
           y == IntOfYear(call.year)
       IN call.result = Ret(Some(IF born.month > 10 \/ (born.month = 10 /\ born.day > 1)
                                 THEN y - born.year - 1
                                 ELSE y - born.year))

\* C9, witness: a birthday on October 1, and the age not decremented
C9_Witness ==
    /\ AgeDone
    /\ call.arg["dob"] # None
    /\ call.table["Date of birth"].date.month = 10
    /\ call.table["Date of birth"].date.day = 1
    /\ call.result = Ret(Some(IntOfYear(call.year) - call.table["Date of birth"].date.year))

\* the errors the valuation lookup and the alignment may end main_add_row with
ValuationErrors ==
    {Some("RequestException"), Some("SyntaxError"), Some("ValueError"), Some("IndexError")}

\* C10: for a player whose attribute record has an absent field, the absence
\* raises no error: unless the valuation lookup or the alignment fails, the
\* row is appended, and its age is absent when the date of birth is.
C10_AbsentFieldsAreNoError ==
    [][(/\ pc = "add_value"
        /\ \E f \in {"dob", "height", "foot", "citizenship", "position"} :
                extracted_player_data[f] = None)
        => (/\ error' \in {None} \cup ValuationErrors
            /\ error' = None
                => (/\ Len(row_data') = Len(row_data) + 1
                    /\ extracted_player_data["dob"] = None
                        => row_data'[Len(row_data')].age = None))]_vars

---------------------------------------------------------------------------
(* C11: a visit appends one whole row or none *)

\* the twelve columns of the header row
RowColumns == {"year", "player_name", "team", "transfer_value", "transfer_value_date",
               "age", "dob", "height", "foot", "citizenship", "position", "player_link"}

\* the columns a row takes over from the player's attribute record
AttributeColumns == {"player_name", "dob", "height", "foot", "citizenship", "position"}

\* row is the row of the visit main is at: the season, the team, the player,
\* the player's stored attributes, the value aligned to the season from the
\* history just looked up, and the age at the season's start
RowOfVisit(row) ==
    LET attributes == attrDisk[CurrentPlayer]
        season == get_season_player_market_value(Years[yi], transfer_value_history')
        age == calculate_player_age(Years[yi], attributes)
    IN /\ DOMAIN row = RowColumns
       /\ row.year = Years[yi]
       /\ row.team = CurrentTeam
       /\ row.player_link = CurrentPlayer
       /\ \A c \in AttributeColumns : row[c] = attributes[c]
       /\ ~Raised(season)
       /\ row.transfer_value = season.ret.value
       /\ row.transfer_value_date = IF season.ret.date = None THEN None
                                    ELSE Some(strftime_d_m_Y(season.ret.date.v))
       /\ ~Raised(age)
       /\ row.age = age.ret

\* C11: within a run every step either leaves the rows as they are or is the
\* add-value step of a visit and appends exactly one row, the complete
\* twelve-column row of that visit, and moves on to another visit; an
\* add-value step that appends nothing ends the run in an error; a player
\* whose attribute lookup stored nothing gets no add-value step, so no row.
C11_RowAtomicity ==
    [][pc \notin {"done", "crashed"} =>
        /\ \/ /\ row_data' = row_data
              /\ pc = "add_value" => pc' = "crashed"
           \/ /\ pc = "add_value"
              /\ Len(row_data') = Len(row_data) + 1
              /\ SubSeq(row_data', 1, Len(row_data)) = row_data
              /\ RowOfVisit(row_data'[Len(row_data')])
              /\ <<yi', ui', pj'>> # <<yi, ui, pj>>
              /\ pc' # "crashed"
        /\ pc = "players" /\ CurrentPlayer \notin DOMAIN attrDisk' => pc' # "add_value"]_vars

\* the only row so far is one of the second season, just appended: every
\* visit of the first season and maybe some of the second appended nothing
C11_Witness ==
    /\ pc \notin {"done", "crashed"}
    /\ transfer_value_history # Unset
    /\ Len(row_data) = 1
    /\ row_data[1].year = Years[2]
    /\ row_data[1].transfer_value # None

---------------------------------------------------------------------------
(* C12: the sort of the extracted history *)

\* the extractor has returned for a page whose only script block holds a
\* well-formed series literal
SortDone ==
    /\ call # None
    /\ call.fn = "scrape_player_market_value_history"
    /\ call.result # Unset
    /\ call.arg # Failure
    /\ Len(call.arg.soup) = 1
    /\ call.arg.soup[1] \notin {Other, Malformed}

\* the rows in the page's order, as handed to the sort
RowsOfPage == ValueRows(call.arg.soup[1].series.v.data).ret

Occurrences(rows, row) == Cardinality({i \in DOMAIN rows : rows[i] = row})

RowsAt(rows, date) == SelectSeq(rows, LAMBDA row : row[2] = date)

\* C12: for every sequence of observations, timestamps repeated or not, the
\* history returned is a permutation of the page's rows, non-decreasing by
\* timestamp, with the rows of equal timestamp in the page's order; a page
\* whose rows are sorted already is returned unchanged.
C12_SortPermutationStable ==
    SortDone =>
        /\ ~Raised(call.result)
        /\ LET history == call.result.ret.items
           IN /\ Len(history) = Len(RowsOfPage)
              /\ \A row \in Range(RowsOfPage) \cup Range(history) :
                    Occurrences(history, row) = Occurrences(RowsOfPage, row)
              /\ IsAscending(history)
              /\ \A date \in FnDates : RowsAt(history, date) = RowsAt(RowsOfPage, date)
              /\ IsAscending(RowsOfPage) => history = RowsOfPage

\* three rows out of order, two of them of one timestamp and different values
C12_Witness ==
    /\ SortDone
    /\ Len(RowsOfPage) = 3
    /\ ~IsAscending(RowsOfPage)
    /\ RowsOfPage[1][2] = RowsOfPage[3][2]
    /\ RowsOfPage[1][1] # RowsOfPage[3][1]
    /\ call.result.ret.items # RowsOfPage

---------------------------------------------------------------------------
(* C13: the rows are in the order of the visits *)

\* where main visits the row's (season, team, player): the season's place in
\* main's years, the team's place in the season's persisted list, the
\* player's place in the team's list
VisitRank(row) ==
    LET teams == linkDisk[row.year]["team_player_links"].items
        u == CHOOSE i \in DOMAIN teams : teams[i][1] = row.team
    IN <<CHOOSE i \in DOMAIN Years : Years[i] = row.year,
         u,
         CHOOSE i \in DOMAIN teams[u][2] : teams[u][2][i] = row.player_link>>

VisitedBefore(a, b) ==
    \/ a[1] < b[1]
    \/ a[1] = b[1] /\ a[2] < b[2]
    \/ a[1] = b[1] /\ a[2] = b[2] /\ a[3] < b[3]

\* C13: the rows stand in the order main visits (season, team, player): the
\* seasons in main's order, so each season's rows are one block, and inside a
\* season in the order of the team and player lists; a step of a run only
\* appends, it never moves, drops or overwrites a row appended before; the
\* writer gets the rows in that order.
C13_RowsInVisitOrder ==
    [][/\ \A i, j \in DOMAIN row_data :
            i < j => VisitedBefore(VisitRank(row_data[i]), VisitRank(row_data[j]))
       /\ pc \notin {"done", "crashed"} =>
            /\ Len(row_data') >= Len(row_data)
            /\ SubSeq(row_data', 1, Len(row_data)) = row_data
       /\ written' # None => written'.items = row_data']_vars

\* a run wrote the rows of every player of both teams in every season
C13_Witness ==
    /\ pc = "done"
    /\ written = List(row_data)
    /\ Len(row_data) = 3 * NumYears
    /\ \E i, j \in DOMAIN row_data : /\ row_data[i].year = row_data[j].year
                                      /\ row_data[i].team # row_data[j].team

---------------------------------------------------------------------------
(* C14: the attribute cache is read through *)

\* C14: a lookup for a player whose record is in the attribute pickle, in any
\* season of any run, returns that record, makes no transport call and leaves
\* the pickle as it is; no entry ever leaves the pickle; the transport is
\* used only for a player without an entry, and a fetch whose record was
\* extracted leaves an entry: where no fetch fails, a player's profile is
\* fetched at most once.
C14_AttributeReadThrough ==
    [][/\ (pc = "players" /\ CurrentPlayer \in DOMAIN attrDisk)
            => (/\ lastCall' = None
                /\ extracted_player_data' = attrDisk[CurrentPlayer]
                /\ attrDisk' = attrDisk
                /\ pc' = "add_value")
       /\ DOMAIN attrDisk \subseteq DOMAIN attrDisk'
       /\ AttributeCall(lastCall') =>
            /\ lastCall'.arg = CurrentPlayer
            /\ CurrentPlayer \notin DOMAIN attrDisk
            /\ (lastCall'.ok /\ pc' # "crashed") => CurrentPlayer \in DOMAIN attrDisk']_vars

\* a later run, after one that ended in an error, has read a player's record
\* from the pickle in its first season
C14_Witness ==
    /\ previous = "crashed"
    /\ yi = 1
    /\ pc = "add_value"
    /\ lastCall = None
    /\ extracted_player_data = attrDisk[CurrentPlayer]

---------------------------------------------------------------------------
(* C15: the histories kept and aligned are ascending *)

\* C15: every history in the valuation pickle that is not None, and every
\* history add_player_market_value_for_year hands to the season aligner, is
\* non-decreasing by timestamp.
C15_HistoriesAscending ==
    /\ \A key \in DOMAIN valDisk :
            valDisk[key] # None => IsAscending(valDisk[key].items)
    /\ transfer_value_history \notin {Unset, None} =>
            IsAscending(transfer_value_history.items)

\* the history of a page that lists its observations out of order is in the
\* pickle, and a lookup has just handed it to the aligner from there
C15_Witness ==
    /\ pc \notin {"done", "crashed"}
    /\ lastCall = None
    /\ transfer_value_history \notin {Unset, None}
    /\ Len(transfer_value_history.items) = 3
    /\ \E page \in ValuePages(P1) :
            \E i \in DOMAIN page :
                /\ page[i] \notin {Other, Malformed}
                /\ ~IsAscending(ValueRows(page[i].series.v.data).ret)
                /\ transfer_value_history.items =
                        SortByDate(ValueRows(page[i].series.v.data).ret)
    /\ \E key \in DOMAIN valDisk : valDisk[key] = transfer_value_history

---------------------------------------------------------------------------
(* C16: which script block the series literal is taken from *)

\* the extractor has returned or raised for a page the transport delivered
ExtractDone ==
    /\ call # None
    /\ call.fn = "scrape_player_market_value_history"
    /\ call.result # Unset
    /\ call.arg # Failure

\* the places of the script blocks that hold a series literal
MarkedBlocks == {i \in DOMAIN call.arg.soup : call.arg.soup[i].series # None}

\* C16: the outcome is that of the last block, in document order, that holds
\* the series marker, whatever the blocks before it hold (a literal before it
\* that does not parse raises nothing); with no such block the extractor
\* returns None and raises nothing.
C16_LastMarkedBlock ==
    ExtractDone =>
        IF MarkedBlocks = {} THEN call.result = Ret(None)
        ELSE LET last == CHOOSE i \in MarkedBlocks : \A j \in MarkedBlocks : j <= i
                 literal == call.arg.soup[last].series.v
             IN IF literal = Malformed.series.v THEN Raised(call.result)
                ELSE /\ ~Raised(call.result)
                     /\ Len(call.result.ret.items) = Len(literal.data)
                     /\ Range(call.result.ret.items) = Range(ValueRows(literal.data).ret)

\* a literal that does not parse, then two different series, then a block
\* without the marker: the history is the second series
C16_Witness ==
    /\ ExtractDone
    /\ Len(call.arg.soup) = 3
    /\ call.arg.soup[1] \in {Malformed} \cup {s \in FnScripts : s # call.arg.soup[2]}
    /\ call.arg.soup[2] \notin {Other, Malformed}
    /\ call.arg.soup[3] = Other
    /\ call.result = Ret(List(SortByDate(ValueRows(call.arg.soup[2].series.v.data).ret)))

---------------------------------------------------------------------------
(* C17: a series literal that does not parse *)

\* the block the extractor takes its literal from holds one that does not parse
MalformedSelected(soup) ==
    \E i \in DOMAIN soup :
        /\ soup[i] = Malformed
        /\ \A j \in DOMAIN soup : j > i => soup[j].series = None

\* C17: when the page fetched for a valuation lookup holds a series literal
\* that does not parse, the lookup raises, the error ends the run, and the
\* valuation pickle is as it was before: neither None nor an empty history is
\* stored for the key, and no row is appended.
C17_MalformedLiteralRaises ==
    [][(/\ ValuationCall(lastCall')
        /\ lastCall'.ok
        /\ MalformedSelected(lastCall'.got.soup))
        => (/\ pc = "add_value"
            /\ pc' = "crashed"
            /\ error' = Some("SyntaxError")
            /\ valDisk' = valDisk
            /\ transfer_value_history' = Unset
            /\ row_data' = row_data)]_vars

\* the run ended on such a page and the pickle has no entry for the key
C17_Witness ==
    /\ pc = "crashed"
    /\ error = Some("SyntaxError")
    /\ ValuationCall(lastCall)
    /\ MalformedSelected(lastCall.got.soup)
    /\ LookupKey \notin DOMAIN valDisk
    /\ valDisk # EmptyDict

---------------------------------------------------------------------------
(* C18: a persisted attribute record is never changed *)

\* C18: no step changes or removes an entry of the attribute pickle, the step
\* that adds a season's value and date to the record main holds included;
\* every entry holds the six attributes and no value or date, and so does the
\* record main gets from a lookup, in whatever season.
C18_AttributeEntryImmutable ==
    [][/\ \A link \in DOMAIN attrDisk :
            /\ link \in DOMAIN attrDisk'
            /\ attrDisk'[link] = attrDisk[link]
            /\ DOMAIN attrDisk[link] = AttributeColumns
       /\ pc' = "add_value" =>
            /\ DOMAIN extracted_player_data' = AttributeColumns
            /\ extracted_player_data' = attrDisk'[CurrentPlayer']]_vars

\* in the second season main holds the record of a player whose row of the
\* first season has a value and a date: the record has neither
C18_Witness ==
    /\ yi = 2
    /\ pc = "add_value"
    /\ lastCall = None
    /\ extracted_player_data = attrDisk[CurrentPlayer]
    /\ "transfer_value" \notin DOMAIN extracted_player_data
    /\ \E i \in DOMAIN row_data :
            /\ row_data[i].player_link = CurrentPlayer
            /\ row_data[i].year = Years[1]
            /\ row_data[i].transfer_value # None
            /\ row_data[i].transfer_value_date # None

---------------------------------------------------------------------------
(* C19: players of one name and position share a valuation entry *)

\* row is a row of this run for another player of the name and position of
\* the player main holds, with a value from a history
SharesKey(row) ==
    /\ row.player_link # CurrentPlayer
    /\ row.player_name = extracted_player_data["player_name"]
    /\ row.position = extracted_player_data["position"]
    /\ row.transfer_value # None

\* C19: when a lookup for one player has cached a history, the lookup for
\* another player of the same name and position makes no transport call,
\* adds no entry and returns the entry of their common key; the row of the
\* second player gets the value and date the first player's row of that
\* season has.
C19_SharedValuationEntry ==
    [][(pc = "add_value" /\ \E i \in DOMAIN row_data : SharesKey(row_data[i]))
        => (/\ lastCall' = None
            /\ valDisk' = valDisk
            /\ transfer_value_history' = valDisk[LookupKey]
            /\ Len(row_data') = Len(row_data) + 1 =>
                \A i \in DOMAIN row_data :
                    (SharesKey(row_data[i]) /\ row_data[i].year = Years[yi]) =>
                        LET row == row_data'[Len(row_data')]
                        IN /\ row.transfer_value = row_data[i].transfer_value
                           /\ row.transfer_value_date = row_data[i].transfer_value_date)]_vars

\* the second player's row has the first player's value, which is not on the
\* second player's own page
C19_Witness ==
    /\ pc \notin {"done", "crashed"}
    /\ transfer_value_history # Unset
    /\ lastCall = None
    /\ Len(row_data) >= 2
    /\ LET first == row_data[Len(row_data) - 1]
           second == row_data[Len(row_data)]
       IN /\ first.player_link = P1
          /\ second.player_link = P2
          /\ first.year = second.year
          /\ first.player_name = second.player_name
          /\ first.position = second.position
          /\ second.transfer_value = first.transfer_value
          /\ \A page \in ValuePages(P2) : \A i \in DOMAIN page :
                page[i] \notin {Other, Malformed} =>
                    \A o \in Range(page[i].series.v.data) : Some(o.y) # second.transfer_value

---------------------------------------------------------------------------
(* C20: the output is written whole or not at all, the caches stay *)

\* the rows reach the writer only when every season is done, all at once; a
\* run that an error ended has written nothing
WrittenAtTheEndOnly ==
    /\ written' # None => (pc' = "done" /\ yi' > NumYears /\ written'.items = row_data')
    /\ error' # None => (pc' = "crashed" /\ written' = None)
    /\ pc' = "crashed" => (error' # None /\ written' = None)

\* a step that ends the run in an error, or starts the next run
ErrorOrRestart == pc' = "crashed" \/ pc \in {"done", "crashed"}

\* what the link and attribute pickles hold stays over such a step
LinksAndAttributesRetained ==
    ErrorOrRestart =>
        /\ \A year \in DOMAIN linkDisk :
                /\ year \in DOMAIN linkDisk'
                /\ \A k \in DOMAIN linkDisk[year] :
                        k \in DOMAIN linkDisk'[year] /\ linkDisk'[year][k] = linkDisk[year][k]
        /\ \A link \in DOMAIN attrDisk :
                link \in DOMAIN attrDisk' /\ attrDisk'[link] = attrDisk[link]

\* a link or attribute page whose result is in a pickle is not fetched
NoRepeatedLinkOrAttributeCall ==
    /\ (LinkCall(lastCall') /\ lastCall'.fn = "extract_team_links")
            => cached_links(linkDisk, Years[yi]).year_team_links = None
    /\ (LinkCall(lastCall') /\ lastCall'.fn = "extract_team_player_links")
            => cached_links(linkDisk, Years[yi]).team_player_links = None
    /\ AttributeCall(lastCall') => lastCall'.arg \notin DOMAIN attrDisk

\* C20, as stated: the rows are handed to the writer only after every season;
\* when an error ends the run no row is written and every persisted cache
\* entry stays; the run after an error makes no transport call whose result
\* was persisted: no link page, no profile page and no value page.
C20_AllOrNothingNoRepeat ==
    [][/\ WrittenAtTheEndOnly
       /\ LinksAndAttributesRetained
       /\ ErrorOrRestart =>
            \A key \in DOMAIN valDisk :
                key \in DOMAIN valDisk' /\ valDisk'[key] = valDisk[key]
       /\ previous = "crashed" =>
            /\ NoRepeatedLinkOrAttributeCall
            /\ ValuationCall(lastCall') => lastCall'.arg \notin valued]_vars

\* C20, amended: as above, but a value page whose persisted result is None
\* (no data block found) is fetched again, in the run after an error too,
\* and what the fetch returns takes the place of the None, even when the
\* step then ends in an error; every persisted history stays.
C20_AllOrNothingNoneRefetched ==
    [][/\ WrittenAtTheEndOnly
       /\ LinksAndAttributesRetained
       /\ ErrorOrRestart =>
            \A key \in DOMAIN valDisk :
                /\ key \in DOMAIN valDisk'
                /\ valDisk[key] # None => valDisk'[key] = valDisk[key]
       /\ previous = "crashed" =>
            /\ NoRepeatedLinkOrAttributeCall
            /\ ValuationCall(lastCall') =>
                    \/ lastCall'.arg \notin valued
                    \/ valDisk[LookupKey] = None]_vars

\* the run after an error has read links and attributes from the pickles and
\* appended a row; it fetches again a value page whose persisted result is
\* None, the fetch fails and ends the run: no row is written, the None stays
C20_Witness ==
    /\ previous = "crashed"
    /\ pc = "crashed"
    /\ error = Some("RequestException")
    /\ written = None
    /\ Len(row_data) >= 1
    /\ ValuationCall(lastCall)
    /\ ~lastCall.ok
    /\ lastCall.arg = CurrentPlayer
    /\ CurrentPlayer \in valued
    /\ CurrentPlayer \in DOMAIN attrDisk
    /\ LookupKey \in DOMAIN valDisk
    /\ valDisk[LookupKey] = None

====
